---- MODULE Spec2Model ----
(***************************************************************************)
(* Model of kachelmann_wetter_getter: the session provider (_http.py),     *)
(* the location resolver (station_id.py) and the control flow of the       *)
(* weather fetcher and its page parser (_weather.py), run by concurrent     *)
(* client threads.                                                         *)
(*                                                                         *)
(* Strings are sequences of one-character strings.  A Python object that   *)
(* a variable can hold is a record [k |-> kind, v |-> integer payload].    *)
(***************************************************************************)
EXTENDS Integers, Sequences, FiniteSets, TLC

\* ------------------------------------------------------------------ bounds
\* total number of client calls started in one behaviour
MaxOps == 3
\* number of set_user_agent calls in one behaviour
MaxHeaderChanges == 1
\* longest Location header enumerated for search_location
MaxLocLen == 3
\* most hourly (daily) blocks of a forecast page
MaxBlocks == 2
\* most nodes one XPath query finds in a block
MaxNodes == 2
\* longest text of a node enumerated for parse_hour
MaxTextLen == 4

\* ------------------------------------------------------------- universes
Threads == {"t1", "t2"}
NoThread == "none"
\* the two providers built by the default constructors
\* (LocationCache.__init__ and KachelmannWetter.__init__)
Providers == {"LocationCache", "KachelmannWetter"}

Digits == {"0", "1", "2", "3", "4", "5", "6", "7", "8", "9"}
DigitVal == ("0" :> 0) @@ ("1" :> 1) @@ ("2" :> 2) @@ ("3" :> 3) @@ ("4" :> 4) @@
            ("5" :> 5) @@ ("6" :> 6) @@ ("7" :> 7) @@ ("8" :> 8) @@ ("9" :> 9)
Whitespace == {" "}

\* ------------------------------------------------------- python objects
Obj(k, v) == [k |-> k, v |-> v]
None == Obj("None", 0)
PyInt(n) == Obj("int", n)
StationId(n) == Obj("StationId", n)
could_not_retrieve == Obj("CouldNotRetrieve", 0)
no_such_location == Obj("NoSuchLocation", 0)
\* a local variable that has not been assigned
Unbound == Obj("unbound", 0)
Raise(e) == Obj(e, 0)
Exceptions == {"ValueError", "TypeError", "AttributeError", "IndexError",
               "TransportError"}
IsRaise(o) == o.k \in Exceptions
\* isinstance(o, int): StationId subclasses int
IsInstanceInt(o) == o.k \in {"int", "StationId"}
\* a type test that lets every object pass for a LocationResult
IsInstanceLocationResult_Anything(o) == TRUE

\* isinstance(o, LocationResult)
IsInstanceLocationResult(o) == o.k \in {"StationId", "CouldNotRetrieve", "NoSuchLocation"}

\* ----------------------------------------------------- string functions
\* index of the last occurrence of c in s, 0 if there is none
RECURSIVE LastIndexOf(_, _)
LastIndexOf(s, c) ==
    IF s = << >> THEN 0
    ELSE IF s[Len(s)] = c THEN Len(s)
    ELSE LastIndexOf(SubSeq(s, 1, Len(s) - 1), c)

\* index of the first occurrence of c in s, 0 if there is none
RECURSIVE FirstIndexOf(_, _)
FirstIndexOf(s, c) ==
    IF s = << >> THEN 0
    ELSE IF Head(s) = c THEN 1
    ELSE LET r == FirstIndexOf(Tail(s), c) IN IF r = 0 THEN 0 ELSE r + 1

\* s.rsplit(c, 1)[-1]
RSplitLast(s, c) == SubSeq(s, LastIndexOf(s, c) + 1, Len(s))

\* s.split(c, 1)[0]
SplitFirst(s, c) ==
    LET i == FirstIndexOf(s, c) IN IF i = 0 THEN s ELSE SubSeq(s, 1, i - 1)

\* s.strip()
RECURSIVE Strip(_)
Strip(s) ==
    IF s = << >> THEN s
    ELSE IF Head(s) \in Whitespace THEN Strip(Tail(s))
    ELSE IF s[Len(s)] \in Whitespace THEN Strip(SubSeq(s, 1, Len(s) - 1))
    ELSE s

\* the digit groups int() accepts after the sign: digits, with single
\* underscores allowed between two digits
RECURSIVE IsIntBody(_)
IsIntBody(s) ==
    /\ s # << >>
    /\ Head(s) \in Digits
    /\ \/ Len(s) = 1
       \/ IsIntBody(Tail(s))
       \/ Len(s) >= 3 /\ s[2] = "_" /\ IsIntBody(SubSeq(s, 3, Len(s)))

RECURSIVE IntBodyVal(_, _)
IntBodyVal(s, acc) ==
    IF s = << >> THEN acc
    ELSE IF Head(s) = "_" THEN IntBodyVal(Tail(s), acc)
    ELSE IntBodyVal(Tail(s), 10 * acc + DigitVal[Head(s)])

\* int(s) for a str s: [ok |-> FALSE] stands for ValueError
ParseInt(s) ==
    LET b == Strip(s)
        signed == b # << >> /\ Head(b) \in {"+", "-"}
        body == IF signed THEN Tail(b) ELSE b
    IN IF IsIntBody(body)
       THEN [ok |-> TRUE,
             v |-> IF signed /\ Head(b) = "-" THEN 0 - IntBodyVal(body, 0)
                   ELSE IntBodyVal(body, 0)]
       ELSE [ok |-> FALSE, v |-> 0]

\* the characters U+00A0 (no-break space) and U+00B0 (degree sign)
NBSP == "nbsp"
Degree == "deg"

\* s.replace('\xA0', ' ')
ReplaceNBSP(s) == [i \in 1..Len(s) |-> IF s[i] = NBSP THEN " " ELSE s[i]]

\* text_content(node) for a str node
text_content(node) == Strip(ReplaceNBSP(node))

RECURSIVE Pow10(_)
Pow10(n) == IF n = 0 THEN 1 ELSE 10 * Pow10(n - 1)

\* a float as the decimal fraction m / 10^e, with e as small as possible
RECURSIVE Float(_, _)
Float(m, e) ==
    IF e > 0 /\ m % 10 = 0 THEN Float(m \div 10, e - 1)
    ELSE [k |-> "float", m |-> m, e |-> e]

\* x / 100.0
DivideBy100(x) == Float(x.m, x.e + 2)

\* float(s) for a str s without letters: a sign, digits, a decimal point,
\* digits, one of the digit groups at least; [ok |-> FALSE] stands for
\* ValueError
ParseFloat(s) ==
    LET b == Strip(s)
        signed == b # << >> /\ Head(b) \in {"+", "-"}
        body == IF signed THEN Tail(b) ELSE b
        dot == FirstIndexOf(body, ".")
        whole == IF dot = 0 THEN body ELSE SubSeq(body, 1, dot - 1)
        frac == IF dot = 0 THEN << >> ELSE SubSeq(body, dot + 1, Len(body))
        places == Cardinality({ i \in 1..Len(frac) : frac[i] \in Digits })
        m == IntBodyVal(whole, 0) * Pow10(places) + IntBodyVal(frac, 0)
    IN IF /\ whole # << >> \/ frac # << >>
          /\ whole = << >> \/ IsIntBody(whole)
          /\ frac = << >> \/ IsIntBody(frac)
       THEN [ok |-> TRUE,
             v |-> Float(IF signed /\ Head(b) = "-" THEN 0 - m ELSE m, places)]
       ELSE [ok |-> FALSE, v |-> Float(0, 0)]

\* --------------------------------------------------------- HTTP responses
\* what the transport gives back: a raised exception, or a status code with
\* an optional Location header
Response(exc, status, hasLoc, loc) ==
    [exc |-> exc, status |-> status, hasLoc |-> hasLoc, loc |-> loc]
NoResponse == Response(FALSE, 0, FALSE, << >>)
TransportFailure == Response(TRUE, 0, FALSE, << >>)

\* a classification whose redirect class starts at 301
SearchResult_RedirectFrom301(r) ==
    IF r.exc THEN could_not_retrieve
    ELSE IF r.status \notin 301..399
    THEN IF r.status \in 200..299 THEN no_such_location ELSE could_not_retrieve
    ELSE IF ~r.hasLoc THEN Raise("AttributeError")
    ELSE LET stationid_name == RSplitLast(r.loc, "/")
             stationid == ParseInt(SplitFirst(stationid_name, "-"))
         IN IF stationid.ok THEN StationId(stationid.v) ELSE Raise("ValueError")

\* a classification that takes an unreadable redirect target for a miss
SearchResult_MissOnBadTarget(r) ==
    IF r.exc THEN could_not_retrieve
    ELSE IF r.status \notin 300..399
    THEN IF r.status \in 200..299 THEN no_such_location ELSE could_not_retrieve
    ELSE IF ~r.hasLoc THEN no_such_location
    ELSE LET stationid_name == RSplitLast(r.loc, "/")
             stationid == ParseInt(SplitFirst(stationid_name, "-"))
         IN IF stationid.ok THEN StationId(stationid.v) ELSE no_such_location

\* LocationCache.search_location, from the response of the POST to its result
SearchResult(r) ==
    IF r.exc THEN could_not_retrieve
    ELSE IF r.status \notin 300..399
    THEN IF r.status \in 200..299 THEN no_such_location ELSE could_not_retrieve
    ELSE IF ~r.hasLoc THEN Raise("AttributeError")
    ELSE LET stationid_name == RSplitLast(r.loc, "/")
             stationid == ParseInt(SplitFirst(stationid_name, "-"))
         IN IF stationid.ok THEN StationId(stationid.v) ELSE Raise("ValueError")

\* a successful answer of the forecast endpoint: the page is given by what
\* the XPath queries of next_hours_days, parse_hour and parse_day find in it
PageResponse(status, page) ==
    [exc |-> FALSE, status |-> status, hasLoc |-> FALSE, loc |-> << >>,
     body |-> page]

\* ------------------------------------------------------- forecast pages
\* an attribute of an element: node.get(name) is its value, or None
Attr(s) == [has |-> TRUE, s |-> s]
NoAttr == [has |-> FALSE, s |-> << >>]
PyStrOrNone(a) == IF a.has THEN [k |-> "str", v |-> 0, s |-> a.s] ELSE Obj("None", 0)

\* a div.fc-symbol element: its title and the src of each img child
SymbolDiv(title, imgs) == [title |-> title, imgs |-> imgs]

\* an hourly block: the text nodes under div.fc-hours, the div.fc-symbol
\* elements, the text nodes under div.fc-temp and under div.fc-rain
HourBlock(hours, symbols, temps, rains) ==
    [hours |-> hours, symbols |-> symbols, temps |-> temps, rains |-> rains]

\* a daily block: how many nodes each query of parse_day finds in it; the
\* texts and image names of a daily block are well-formed
DayBlock(headings, body, morning, afternoon, evening, minmax, temp_max, temp_min, risk_divs, rain_texts) ==
    [headings |-> headings, body |-> body, morning |-> morning,
     afternoon |-> afternoon, evening |-> evening, minmax |-> minmax,
     temp_max |-> temp_max, temp_min |-> temp_min, risk_divs |-> risk_divs,
     rain_texts |-> rain_texts]

Page(hours, days) == [hours |-> hours, days |-> days]

\* an extract_symbol that takes the last segment of the name
extract_symbol_LastSegment(img) ==
    IF ~img.has THEN Raise("AttributeError")
    ELSE LET name == SplitFirst(RSplitLast(img.s, "/"), ".")
         IN IF FirstIndexOf(name, "_") = 0 THEN Raise("IndexError")
            ELSE [k |-> "str", v |-> 0, s |-> RSplitLast(name, "_")]

\* extract_symbol: img.get('src').rsplit('/', 1)[-1].split('.')[0]
\* .split('_', 2)[1]
extract_symbol(img) ==
    IF ~img.has THEN Raise("AttributeError")
    ELSE LET name == SplitFirst(RSplitLast(img.s, "/"), ".")
             first == FirstIndexOf(name, "_")
         IN IF first = 0 THEN Raise("IndexError")
            ELSE [k |-> "str", v |-> 0,
                  s |-> SplitFirst(SubSeq(name, first + 1, Len(name)), "_")]

\* parse_hour, lines 107-109: the first word of the hours text is split at
\* its first colon and both parts are read as integers
HoursMinutes(text) ==
    LET t == text_content(text)
        word == SplitFirst(t, " ")
        colon == FirstIndexOf(word, ":")
        h == ParseInt(SubSeq(word, 1, colon - 1))
        m == ParseInt(SubSeq(word, colon + 1, Len(word)))
    IN IF t = << >> THEN Raise("IndexError")
       ELSE IF colon = 0 \/ ~h.ok \/ ~m.ok THEN Raise("ValueError")
       ELSE [k |-> "ok", v |-> 0, hours |-> h.v, minutes |-> m.v]

\* parse_hour: each of the five queries must find exactly one node, then the
\* texts are converted; any failure raises
parse_hour(hour_data) ==
    IF \/ Len(hour_data.hours) # 1
       \/ Len(hour_data.symbols) # 1
       \/ Len(hour_data.symbols[1].imgs) # 1
       \/ Len(hour_data.temps) # 1
       \/ Len(hour_data.rains) # 1
    THEN Raise("ValueError")
    ELSE LET symbol == hour_data.symbols[1]
             hm == HoursMinutes(hour_data.hours[1])
             sym == extract_symbol(symbol.imgs[1])
             temperature ==
                 ParseFloat(SplitFirst(text_content(hour_data.temps[1]), Degree))
             chance_of_rain ==
                 ParseFloat(SplitFirst(text_content(hour_data.rains[1]), "%"))
         IN IF IsRaise(hm) THEN hm
            ELSE IF IsRaise(sym) THEN sym
            ELSE IF ~temperature.ok \/ ~chance_of_rain.ok THEN Raise("ValueError")
            ELSE [k |-> "NextHoursData", v |-> 0,
                  hours |-> hm.hours, minutes |-> hm.minutes,
                  sky |-> [friendly_name |-> PyStrOrNone(symbol.title),
                           symbol |-> sym],
                  temperature |-> temperature.v,
                  chance_of_rain |-> DivideBy100(chance_of_rain.v)]

\* parse_day: the heading has two text nodes, the risks two divs, the wind and
\* rain column three texts, every other query finds exactly one node
parse_day(day_data) ==
    IF /\ day_data.headings = 2
       /\ day_data.body = 1
       /\ day_data.morning = 1
       /\ day_data.afternoon = 1
       /\ day_data.evening = 1
       /\ day_data.minmax = 1
       /\ day_data.temp_max = 1
       /\ day_data.temp_min = 1
       /\ day_data.risk_divs = 2
       /\ day_data.rain_texts = 3
    THEN Obj("NextDaysData", 0)
    ELSE Raise("ValueError")

\* the first exception in a list of parse results, None if there is none
FirstRaise(rs) ==
    LET bad == { i \in 1..Len(rs) : IsRaise(rs[i]) }
    IN IF bad = {} THEN Obj("None", 0)
       ELSE rs[CHOOSE i \in bad : \A j \in bad : i <= j]

\* a parser that leaves out the blocks it cannot read
ParsePage_SkipsBadBlocks(page) ==
    LET data_hours == [i \in 1..Len(page.hours) |-> parse_hour(page.hours[i])]
        data_days == [i \in 1..Len(page.days) |-> parse_day(page.days[i])]
    IN [k |-> "NextHoursDaysData", v |-> 0,
        hours |-> SelectSeq(data_hours, LAMBDA x : ~IsRaise(x)),
        days |-> SelectSeq(data_days, LAMBDA x : ~IsRaise(x))]

\* next_hours_days, lines 200-211: every hourly block is parsed, then every
\* daily block; the first block that fails raises out of the call
ParsePage(page) ==
    LET data_hours == [i \in 1..Len(page.hours) |-> parse_hour(page.hours[i])]
        data_days == [i \in 1..Len(page.days) |-> parse_day(page.days[i])]
    IN IF IsRaise(FirstRaise(data_hours)) THEN FirstRaise(data_hours)
       ELSE IF IsRaise(FirstRaise(data_days)) THEN FirstRaise(data_days)
       ELSE [k |-> "NextHoursDaysData", v |-> 0,
             hours |-> data_hours, days |-> data_days]

\* ------------------------------------------------------------ arguments
PyStr(s) == [k |-> "str", v |-> 0, s |-> s]
ObjArg(o) == [k |-> o.k, v |-> o.v, s |-> << >>]
NoArg == ObjArg(None)

default_user_agent == "Kachelmann-Wetter-Getter"
UserAgents == {"ua1"}

NameB == <<"b">>
NameC == <<"c">>
Numeric12 == <<"1", "2">>
Numeric07 == <<"0", "7">>
\* the location names given to get_location
Names == {NameB, NameC}
\* the values given to next_hours_days and to get_station_id
Locations == {PyStr(NameB), PyStr(Numeric12)}
StationArgs == Locations \cup {PyStr(Numeric07)}

\* the values given to get_station_id that are no str: an int, the results
\* of search_location, None and a float
ObjectArgs ==
    { ObjArg(PyInt(5)), ObjArg(StationId(7)), ObjArg(no_such_location),
      ObjArg(could_not_retrieve), ObjArg(None), ObjArg(Obj("float", 5)) }

\* the answers of the search endpoint in the concurrent specification
SearchResponses ==
    { TransportFailure,
      Response(FALSE, 200, FALSE, << >>),
      Response(FALSE, 302, TRUE, <<"/", "7", "-", "b">>),
      Response(FALSE, 302, TRUE, <<"/", "b", "-", "b">>),
      Response(FALSE, 500, FALSE, << >>) }

\* a search that finds the station or fails in the transport
FoundOrFailed ==
    { TransportFailure, Response(FALSE, 302, TRUE, <<"/", "7", "-", "b">>) }

\* the hourly block of the documentation: 13:00, bedeckt, 3.0 degrees, 88%
ExampleHours == <<"1", "3", ":", "0", "0">>
ExampleTitle == <<"b", "e", "d", "e", "c", "k", "t">>
ExampleSrc ==
    <<"/", "i", "/", "w", "s", "y", "m", "b", "o", "l", "_", "0", "_",
      "o", "v", "e", "r", "c", "a", "s", "t", ".", "p", "n", "g">>
ExampleTemp == <<"3", ".", "0", Degree>>
ExampleRain == <<"8", "8", "%">>
ExampleHour ==
    HourBlock(<< ExampleHours >>,
              << SymbolDiv(Attr(ExampleTitle), << Attr(ExampleSrc) >>) >>,
              << ExampleTemp >>, << ExampleRain >>)

\* a daily block in which every query finds what parse_day expects
GoodDay == DayBlock(2, 1, 1, 1, 1, 1, 1, 1, 2, 3)

Rep(x, n) == [i \in 1..n |-> x]

\* the hourly blocks in which each query finds 0..MaxNodes nodes
HourBlocksByCount ==
    { HourBlock(Rep(ExampleHours, a),
                Rep(SymbolDiv(Attr(ExampleTitle), Rep(Attr(ExampleSrc), c)), b),
                Rep(ExampleTemp, d), Rep(ExampleRain, e)) :
        a \in 0..MaxNodes, b \in 0..MaxNodes, c \in 0..MaxNodes,
        d \in 0..MaxNodes, e \in 0..MaxNodes }

\* the daily blocks in which one query finds another number of nodes
DayBlocksByCount ==
    { [GoodDay EXCEPT ![f] = n] : f \in DOMAIN GoodDay, n \in 0..(MaxNodes + 1) }

\* the lists of at most MaxBlocks blocks, all of them good but one
ListsWithOne(good, others) ==
    { << >> } \cup
    { [i \in 1..n |-> IF i = j THEN b ELSE good] :
        n \in 1..MaxBlocks, j \in 1..MaxBlocks, b \in others }

\* pages by structure: the empty page, and the pages in which the ill-formed
\* block is an hourly or a daily one
PagesByCount ==
    { Page(<< >>, << >>) }
    \cup { Page(hs, << GoodDay >>) : hs \in ListsWithOne(ExampleHour, HourBlocksByCount) }
    \cup { Page(<< ExampleHour >>, ds) : ds \in ListsWithOne(GoodDay, DayBlocksByCount) }

\* every string of at most n characters of the alphabet
RECURSIVE StringsOver(_, _)
StringsOver(alphabet, n) ==
    IF n = 0 THEN { << >> }
    ELSE LET shorter == StringsOver(alphabet, n - 1)
         IN shorter \cup { Append(w, c) : w \in shorter, c \in alphabet }

\* the texts and image names enumerated for one hourly block; a text node
\* is never empty
HoursTexts ==
    (StringsOver({"1", "0", ":", " ", NBSP}, MaxTextLen) \ { << >> })
    \cup { ExampleHours }
ImageNames ==
    StringsOver({"a", "b", "_", ".", "/"}, MaxTextLen)
    \cup { ExampleSrc,
           <<"a", "_", "b", "_", "a", "_", "b">>,
           <<"a", ".", "b", "_", "a">> }
TempTexts ==
    (StringsOver({"3", "0", ".", "-", Degree}, MaxTextLen) \ { << >> })
    \cup { ExampleTemp }
RainTexts ==
    (StringsOver({"8", "5", ".", "%", " "}, MaxTextLen) \ { << >> })
    \cup { ExampleRain }

\* the well-formed hourly blocks that differ from the example in one node
HourBlocksByText ==
    { [ExampleHour EXCEPT !.hours = << w >>] : w \in HoursTexts }
    \cup { [ExampleHour EXCEPT !.symbols = << SymbolDiv(Attr(ExampleTitle), << a >>) >>] :
             a \in { Attr(w) : w \in ImageNames } \cup { NoAttr } }
    \cup { [ExampleHour EXCEPT !.symbols = << SymbolDiv(NoAttr, << Attr(ExampleSrc) >>) >>] }
    \cup { [ExampleHour EXCEPT !.temps = << w >>] : w \in TempTexts }
    \cup { [ExampleHour EXCEPT !.rains = << w >>] : w \in RainTexts }

PagesByText == { Page(<< b >>, << GoodDay >>) : b \in HourBlocksByText }

ExamplePage == Page(<< ExampleHour >>, << GoodDay >>)

\* a forecast request that succeeds
Fetched == { PageResponse(200, ExamplePage) }

\* the answers of the forecast endpoint in the concurrent specification
FetchStatuses == {199, 200, 299, 300, 404}
FetchResponses ==
    { TransportFailure }
    \cup { Response(FALSE, c, FALSE, << >>) : c \in FetchStatuses \ (200..299) }
    \cup { PageResponse(c, ExamplePage) : c \in FetchStatuses \cap (200..299) }

\* the answers of the forecast endpoint where only the course of the call
\* matters: a failure, a refusal, and a page without blocks
PlainFetchResponses ==
    { TransportFailure, Response(FALSE, 404, FALSE, << >>),
      PageResponse(200, Page(<< >>, << >>)) }

\* every answer of the forecast endpoint up to the bounds
AllFetchResponses ==
    { Response(FALSE, 404, FALSE, << >>) }
    \cup { PageResponse(200, page) : page \in PagesByCount \cup PagesByText }

\* every answer of the search endpoint up to the bounds: the status codes
\* around the limits of the classes, every Location header of at most
\* MaxLocLen characters, and the target of a real redirect
LocAlphabet == {"1", "2", "-", "/", "b"}
RECURSIVE StringsUpTo(_)
StringsUpTo(n) ==
    IF n = 0 THEN { << >> }
    ELSE LET shorter == StringsUpTo(n - 1)
         IN shorter \cup { Append(w, c) : w \in shorter, c \in LocAlphabet }
BerlinTarget ==
    <<"/", "d", "e", "/", "w", "e", "t", "t", "e", "r", "/",
      "1", "2", "3", "4", "5", "-", "b", "e", "r", "l", "i", "n">>
SearchStatuses == {100, 199, 200, 299, 300, 302, 399, 400, 404, 500}
AllSearchResponses ==
    { TransportFailure }
    \cup { Response(FALSE, c, FALSE, << >>) : c \in SearchStatuses }
    \cup { Response(FALSE, c, TRUE, w) :
             c \in SearchStatuses, w \in StringsUpTo(MaxLocLen) \cup {BerlinTarget} }

\* ---------------------------------------------------------------- state
VARIABLES
    headers,                    \* _http.headers['User-Agent']
    header_modication_tracker,  \* _http.header_modication_tracker (identity)
    sessions,                   \* every Session created: [ua, closed]
    gen,                        \* per provider: the getter() generator frame
    plock,                      \* per provider: lock of new_session_getter
    cache,                      \* LocationCache.cache
    cache_absent,               \* LocationCache.cache_absent
    lock,                       \* LocationCache.lock
    pc, op, arg,                \* per thread: position, running call, argument
    held,                       \* per thread: session bound by 'with ... as session'
    resp,                       \* per thread: last response received
    result,                     \* per thread: result of search_location
    city_id,                    \* per thread: city_id of next_hours_days
    ret,                        \* per thread: value returned / exception raised
    opsLeft, changesLeft,       \* remaining budget of calls
    posts, gets,                \* per thread: requests issued by the running call
    checkouts,                  \* per thread, provider: get_session() calls of the running call
    hist,                       \* per name: outcomes of the lookups get_location issued
    writes,                     \* per name: number of cache writes
    resolved,                   \* names a finished get_station_id lookup has settled
    prior,                      \* per thread: name was settled when get_station_id began
    snap,                       \* per thread: cache as get_location found it
    coTracker,                  \* per thread: tracker when get_session() was called
    lastOut,                    \* per provider: last session handed out
    prevOut,                    \* per thread: lastOut found on entering the scope
    parsed                      \* per thread: the running call parsed a response body

vars == << headers, header_modication_tracker, sessions, gen, plock, cache,
           cache_absent, lock, pc, op, arg, held, resp, result, city_id, ret,
           opsLeft, changesLeft, posts, gets, checkouts, hist, writes,
           resolved, prior, snap, coTracker, lastOut, prevOut, parsed >>

provVars == << sessions, gen, plock >>
httpVars == << headers, header_modication_tracker >>
cacheVars == << cache, cache_absent, lock >>
localVars == << held, resp, result, city_id >>
ghostVars == << posts, gets, checkouts, hist, writes, resolved, prior, snap,
                coTracker, lastOut, prevOut, parsed >>

EmptyCache == [n \in Names |-> None]
NoOut == [sid |-> 0, startTrk |-> 0, enterTrk |-> 0]

InitCommon ==
    /\ headers = << default_user_agent >>
    /\ header_modication_tracker = 0
    /\ sessions = << >>
    /\ gen = [p \in Providers |->
                [pc |-> "new", runner |-> NoThread, session |-> 0, old_tracker |-> 0]]
    /\ plock = [p \in Providers |-> NoThread]
    /\ cache = EmptyCache
    /\ lock = NoThread
    /\ pc = [t \in Threads |-> "idle"]
    /\ op = [t \in Threads |-> "none"]
    /\ arg = [t \in Threads |-> NoArg]
    /\ held = [t \in Threads |-> 0]
    /\ resp = [t \in Threads |-> NoResponse]
    /\ result = [t \in Threads |-> None]
    /\ city_id = [t \in Threads |-> Unbound]
    /\ ret = [t \in Threads |-> None]
    /\ changesLeft = MaxHeaderChanges
    /\ posts = [t \in Threads |-> 0]
    /\ gets = [t \in Threads |-> 0]
    /\ checkouts = [t \in Threads |-> [p \in Providers |-> 0]]
    /\ hist = [n \in Names |-> << >>]
    /\ writes = [n \in Names |-> 0]
    /\ resolved = {}
    /\ prior = [t \in Threads |-> FALSE]
    /\ snap = [t \in Threads |-> EmptyCache]
    /\ coTracker = [t \in Threads |-> 0]
    /\ lastOut = [p \in Providers |-> NoOut]
    /\ prevOut = [t \in Threads |-> NoOut]
    /\ parsed = [t \in Threads |-> FALSE]

\* LocationCache.__init__: cache_absent defaults to True, the caller may
\* pass False
Init ==
    /\ InitCommon
    /\ cache_absent \in BOOLEAN
    /\ opsLeft = MaxOps

\* the default construction: LocationCache() caches misses
InitDefault ==
    /\ InitCommon
    /\ cache_absent = TRUE
    /\ opsLeft = MaxOps

\* --------------------------------------------------------- _http.py
\* set_user_agent, first statement: headers['User-Agent'] = ...
SetUserAgentHeaders(t) ==
    /\ pc[t] = "sua_headers"
    /\ headers' = IF arg[t].v = 1 THEN arg[t].s
                  ELSE arg[t].s \o << default_user_agent >>
    /\ pc' = [pc EXCEPT ![t] = "sua_invalidate"]
    /\ UNCHANGED << header_modication_tracker, provVars, cacheVars, op, arg,
                    localVars, ret, opsLeft, changesLeft, ghostVars >>

\* invalidate_sessions, called last by set_user_agent: a fresh tracker object
invalidate_sessions(t) ==
    /\ pc[t] = "sua_invalidate"
    /\ header_modication_tracker' = header_modication_tracker + 1
    /\ pc' = [pc EXCEPT ![t] = "done"]
    /\ ret' = [ret EXCEPT ![t] = None]
    /\ UNCHANGED << headers, provVars, cacheVars, op, arg, localVars,
                    opsLeft, changesLeft, ghostVars >>

\* the provider a thread is checking out: search_location uses the
\* resolver's, next_hours_days the fetcher's
Prov(t) ==
    IF pc[t] \in {"sl_getter", "sl_gen", "sl_enter", "sl_post"}
    THEN "LocationCache" ELSE "KachelmannWetter"

\* an exception that leaves get_location without leaving 'with self.lock'
RaisePc_KeepsLock(t) == "done"

\* where a call continues when one of its statements raises: get_location
\* still has to leave 'with self.lock', every other caller just propagates
RaisePc(t) == IF op[t] = "gl" THEN "gl_store" ELSE "done"

\* where a thread continues once get_session() has returned the context
\* manager
AfterGetterPc(t) == IF pc[t] = "sl_gen" THEN "sl_enter" ELSE "nhd_enter"

\* self.get_session(): getter().__next__ resumes the generator; a generator
\* that another thread is running raises ValueError in the caller
GetterCall(t) ==
    /\ pc[t] \in {"sl_getter", "nhd_getter"}
    /\ LET p == Prov(t) IN
        /\ checkouts' = [checkouts EXCEPT ![t][p] = @ + 1]
        /\ IF gen[p].runner # NoThread
           THEN /\ pc' = [pc EXCEPT ![t] = RaisePc(t)]
                /\ result' = [result EXCEPT ![t] =
                                IF op[t] = "gl" THEN Raise("ValueError") ELSE @]
                /\ ret' = [ret EXCEPT ![t] =
                             IF op[t] = "gl" THEN @ ELSE Raise("ValueError")]
                /\ UNCHANGED << gen, coTracker >>
           ELSE /\ gen' = [gen EXCEPT ![p].runner = t,
                                      ![p].pc = IF @ = "yield" THEN "cur" ELSE @]
                /\ pc' = [pc EXCEPT ![t] = IF pc[t] = "sl_getter" THEN "sl_gen" ELSE "nhd_gen"]
                /\ coTracker' = [coTracker EXCEPT ![t] = header_modication_tracker]
                /\ UNCHANGED << result, ret >>
    /\ UNCHANGED << httpVars, sessions, plock, cacheVars, op, arg, held, resp,
                    city_id, opsLeft, changesLeft, posts, gets, hist, writes,
                    resolved, prior, snap, lastOut, prevOut, parsed >>

\* getter, line 93: 'with new_session() as session' creates a Session that
\* copies the headers of this moment
GenNewSession(t) ==
    /\ pc[t] \in {"sl_gen", "nhd_gen"}
    /\ LET p == Prov(t) IN
        /\ gen[p].runner = t /\ gen[p].pc = "new"
        /\ sessions' = Append(sessions, [ua |-> headers, closed |-> FALSE])
        /\ gen' = [gen EXCEPT ![p].session = Len(sessions) + 1, ![p].pc = "old"]
    /\ UNCHANGED << httpVars, plock, cacheVars, pc, op, arg, localVars, ret,
                    opsLeft, changesLeft, ghostVars >>

\* getter, line 94: old_tracker = header_modication_tracker
GenReadOldTracker(t) ==
    /\ pc[t] \in {"sl_gen", "nhd_gen"}
    /\ LET p == Prov(t) IN
        /\ gen[p].runner = t /\ gen[p].pc = "old"
        /\ gen' = [gen EXCEPT ![p].old_tracker = header_modication_tracker,
                              ![p].pc = "cur"]
    /\ UNCHANGED << httpVars, sessions, plock, cacheVars, pc, op, arg,
                    localVars, ret, opsLeft, changesLeft, ghostVars >>

\* a getter that never looks at the tracker again
GenCompare_IgnoresTracker(t) ==
    /\ pc[t] \in {"sl_gen", "nhd_gen"}
    /\ LET p == Prov(t) IN
        /\ gen[p].runner = t /\ gen[p].pc = "cur"
        /\ gen' = [gen EXCEPT ![p].runner = NoThread, ![p].pc = "yield"]
        /\ pc' = [pc EXCEPT ![t] = AfterGetterPc(t)]
    /\ UNCHANGED << httpVars, sessions, plock, cacheVars, op, arg, localVars,
                    ret, opsLeft, changesLeft, ghostVars >>

\* getter, lines 96-101: read the tracker; unchanged: yield the context
\* manager (the generator suspends); changed: break out of the inner loop
GenCompare(t) ==
    /\ pc[t] \in {"sl_gen", "nhd_gen"}
    /\ LET p == Prov(t) IN
        /\ gen[p].runner = t /\ gen[p].pc = "cur"
        /\ IF header_modication_tracker # gen[p].old_tracker
           THEN /\ gen' = [gen EXCEPT ![p].old_tracker = header_modication_tracker,
                                      ![p].pc = "close"]
                /\ pc' = pc
           ELSE /\ gen' = [gen EXCEPT ![p].runner = NoThread, ![p].pc = "yield"]
                /\ pc' = [pc EXCEPT ![t] = AfterGetterPc(t)]
    /\ UNCHANGED << httpVars, sessions, plock, cacheVars, op, arg, localVars,
                    ret, opsLeft, changesLeft, ghostVars >>

\* getter, leaving the 'with new_session()' block after the break:
\* Session.__exit__ closes the session, the outer loop starts over
GenCloseSession(t) ==
    /\ pc[t] \in {"sl_gen", "nhd_gen"}
    /\ LET p == Prov(t) IN
        /\ gen[p].runner = t /\ gen[p].pc = "close"
        /\ sessions' = [sessions EXCEPT ![gen[p].session].closed = TRUE]
        /\ gen' = [gen EXCEPT ![p].pc = "new"]
    /\ UNCHANGED << httpVars, plock, cacheVars, pc, op, arg, localVars, ret,
                    opsLeft, changesLeft, ghostVars >>

\* a context manager that yields the session without taking the lock
LockSessionEnter_NoLock(t) ==
    /\ pc[t] \in {"sl_enter", "nhd_enter"}
    /\ LET p == Prov(t) IN
        /\ plock' = [plock EXCEPT ![p] = t]
        /\ held' = [held EXCEPT ![t] = gen[p].session]
        /\ prevOut' = [prevOut EXCEPT ![t] = lastOut[p]]
        /\ lastOut' = [lastOut EXCEPT ![p] =
                         [sid |-> gen[p].session, startTrk |-> coTracker[t],
                          enterTrk |-> header_modication_tracker]]
    /\ coTracker' = [coTracker EXCEPT ![t] = 0]
    /\ pc' = [pc EXCEPT ![t] = IF pc[t] = "sl_enter" THEN "sl_post" ELSE "nhd_get"]
    /\ UNCHANGED << httpVars, sessions, gen, cacheVars, op, arg, resp, result,
                    city_id, ret, opsLeft, changesLeft, posts, gets, checkouts,
                    hist, writes, resolved, prior, snap, parsed >>

\* lock_session_context.__enter__: 'with lock: yield session' takes the
\* provider's lock and hands out whatever the generator's variable 'session'
\* holds at this moment
LockSessionEnter(t) ==
    /\ pc[t] \in {"sl_enter", "nhd_enter"}
    /\ LET p == Prov(t) IN
        /\ plock[p] = NoThread
        /\ plock' = [plock EXCEPT ![p] = t]
        /\ held' = [held EXCEPT ![t] = gen[p].session]
        /\ prevOut' = [prevOut EXCEPT ![t] = lastOut[p]]
        /\ lastOut' = [lastOut EXCEPT ![p] =
                         [sid |-> gen[p].session, startTrk |-> coTracker[t],
                          enterTrk |-> header_modication_tracker]]
    /\ coTracker' = [coTracker EXCEPT ![t] = 0]
    /\ pc' = [pc EXCEPT ![t] = IF pc[t] = "sl_enter" THEN "sl_post" ELSE "nhd_get"]
    /\ UNCHANGED << httpVars, sessions, gen, cacheVars, op, arg, resp, result,
                    city_id, ret, opsLeft, changesLeft, posts, gets, checkouts,
                    hist, writes, resolved, prior, snap, parsed >>

\* a context manager that releases the lock of every provider
LockSessionExit_ReleasesAll(t, p) ==
    /\ plock' = [q \in Providers |-> NoThread]
    /\ held' = [held EXCEPT ![t] = 0]
    /\ prevOut' = [prevOut EXCEPT ![t] = NoOut]

\* lock_session_context.__exit__: the provider's lock is released and the
\* name bound by 'as session' goes out of use
LockSessionExit(t, p) ==
    /\ plock' = [plock EXCEPT ![p] = NoThread]
    /\ held' = [held EXCEPT ![t] = 0]
    /\ prevOut' = [prevOut EXCEPT ![t] = NoOut]

\* ------------------------------------------------------ station_id.py
\* a conversion that hands a failed retrieval on to the caller
StationIdOf_PassesFailure(o) ==
    IF IsInstanceInt(o) THEN PyInt(o.v)
    ELSE IF ~IsInstanceLocationResult(o) THEN Raise("TypeError")
    ELSE IF o.k = "CouldNotRetrieve" THEN o
    ELSE None

\* get_station_id, lines 182-185: what it returns for an object that is
\* not (or no longer) a str
StationIdOf(o) ==
    IF IsInstanceInt(o) THEN PyInt(o.v)
    ELSE IF ~IsInstanceLocationResult(o) THEN Raise("TypeError")
    ELSE None

\* a next_hours_days that goes on without an identifier
AfterResolvePc_IgnoresNone(v) == IF IsRaise(v) THEN "done" ELSE "nhd_getter"

\* next_hours_days, lines 185-187: position after get_station_id returned v
AfterResolvePc(v) == IF IsRaise(v) \/ v = None THEN "done" ELSE "nhd_getter"

\* position of the caller of get_station_id once it has returned v
AfterStationIdPc(t, v) == IF op[t] = "nhd" THEN AfterResolvePc(v) ELSE "done"

\* a get_station_id that looks every str up
NeedsSearch_EveryStr(a) == a.k = "str"

\* get_station_id, lines 174-180: whether the argument goes to
\* search_location, which is a str that int() rejects
NeedsSearch(a) == a.k = "str" /\ ~ParseInt(a.s).ok

\* get_station_id, lines 174-185, up to the call of search_location:
\* a str that int() accepts is returned as that int, any other str is
\* looked up with search_location, anything else is converted at once
GetStationIdBegin(t) ==
    /\ pc[t] = "gsi_begin"
    /\ LET a == arg[t]
           v == IF a.k = "str" THEN PyInt(ParseInt(a.s).v)
                ELSE StationIdOf(Obj(a.k, a.v))
       IN IF NeedsSearch(a)
          THEN /\ pc' = [pc EXCEPT ![t] = "sl_getter"]
               /\ prior' = [prior EXCEPT ![t] = a.s \in resolved]
               /\ UNCHANGED << city_id, ret >>
          ELSE /\ pc' = [pc EXCEPT ![t] = AfterStationIdPc(t, v)]
               /\ city_id' = [city_id EXCEPT ![t] = IF op[t] = "nhd" THEN v ELSE @]
               /\ ret' = [ret EXCEPT ![t] =
                            IF op[t] = "nhd" /\ ~IsRaise(v) THEN None ELSE v]
               /\ prior' = prior
    /\ UNCHANGED << httpVars, provVars, cacheVars, op, arg, held, resp, result,
                    opsLeft, changesLeft, posts, gets, checkouts, hist, writes,
                    resolved, snap, coTracker, lastOut, prevOut, parsed >>

\* position of the caller of search_location once it has returned or raised
AfterSearchPc(t, r) ==
    IF IsRaise(r) THEN RaisePc(t)
    ELSE IF op[t] = "gl" THEN "gl_store"
    ELSE IF op[t] = "sl" THEN "done"
    ELSE AfterStationIdPc(t, StationIdOf(r))

\* search_location, lines 99-120, from the POST on: the request is sent on
\* the session handed out, the transport answers, the 'with' block is left
\* and the response is classified; get_station_id and next_hours_days go on
\* with the result at once, get_location keeps it for its cache rule
SearchRespond(t, answers) ==
    /\ pc[t] = "sl_post"
    /\ \E a \in answers :
        LET r == SearchResult(a)
            name == arg[t].s
            v == StationIdOf(r)
        IN
        /\ resp' = [resp EXCEPT ![t] = a]
        /\ posts' = [posts EXCEPT ![t] = @ + 1]
        /\ LockSessionExit(t, "LocationCache")
        /\ result' = [result EXCEPT ![t] = IF op[t] = "gl" THEN r ELSE @]
        /\ pc' = [pc EXCEPT ![t] = AfterSearchPc(t, r)]
        /\ ret' = [ret EXCEPT ![t] =
                     IF op[t] = "gl" THEN @
                     ELSE IF IsRaise(r) \/ op[t] = "sl" THEN r
                     ELSE IF op[t] = "gsi" THEN v
                     ELSE @]
        /\ city_id' = [city_id EXCEPT ![t] =
                         IF op[t] = "nhd" /\ ~IsRaise(r) THEN v ELSE @]
        /\ hist' = IF op[t] = "gl" THEN [hist EXCEPT ![name] = Append(@, r.k)]
                   ELSE hist
        /\ resolved' = IF op[t] \in {"gsi", "nhd"}
                          /\ r.k \in {"StationId", "NoSuchLocation"}
                       THEN resolved \cup {name} ELSE resolved
    /\ UNCHANGED << httpVars, sessions, gen, cacheVars, op, arg, opsLeft,
                    changesLeft, gets, checkouts, writes, prior, snap,
                    coTracker, lastOut, parsed >>

\* a get_location that looks every name up again
GetLocationEnter_IgnoresCache(t) ==
    /\ pc[t] = "gl_lock"
    /\ lock = NoThread
    /\ ret' = ret
    /\ pc' = [pc EXCEPT ![t] = "sl_getter"]
    /\ lock' = t
    /\ snap' = [snap EXCEPT ![t] = cache]
    /\ UNCHANGED << httpVars, provVars, cache, cache_absent, op, arg, localVars,
                    opsLeft, changesLeft, posts, gets, checkouts, hist, writes,
                    resolved, prior, coTracker, lastOut, prevOut, parsed >>

\* a get_location that does not wait for self.lock
GetLocationEnter_NoLock(t) ==
    /\ pc[t] = "gl_lock"
    /\ LET hit == cache[arg[t].s] IN
        IF hit # None
        THEN /\ ret' = [ret EXCEPT ![t] = hit]
             /\ pc' = [pc EXCEPT ![t] = "done"]
             /\ UNCHANGED << lock, snap >>
        ELSE /\ ret' = ret
             /\ pc' = [pc EXCEPT ![t] = "sl_getter"]
             /\ lock' = t
             /\ snap' = [snap EXCEPT ![t] = cache]
    /\ UNCHANGED << httpVars, provVars, cache, cache_absent, op, arg, localVars,
                    opsLeft, changesLeft, posts, gets, checkouts, hist, writes,
                    resolved, prior, coTracker, lastOut, prevOut, parsed >>

\* get_location, lines 137-140: take self.lock and look the name up in the
\* cache; a hit is returned as it is stored, and the lock is released
GetLocationEnter(t) ==
    /\ pc[t] = "gl_lock"
    /\ lock = NoThread
    /\ LET hit == cache[arg[t].s] IN
        IF hit # None
        THEN /\ ret' = [ret EXCEPT ![t] = hit]
             /\ pc' = [pc EXCEPT ![t] = "done"]
             /\ UNCHANGED << lock, snap >>
        ELSE /\ ret' = ret
             /\ pc' = [pc EXCEPT ![t] = "sl_getter"]
             /\ lock' = t
             /\ snap' = [snap EXCEPT ![t] = cache]
    /\ UNCHANGED << httpVars, provVars, cache, cache_absent, op, arg, localVars,
                    opsLeft, changesLeft, posts, gets, checkouts, hist, writes,
                    resolved, prior, coTracker, lastOut, prevOut, parsed >>

\* a cache rule that keeps a miss whatever cache_absent says
Stored_IgnoresCacheAbsent(r) == ~IsRaise(r) /\ r.k # "CouldNotRetrieve"

\* a cache rule that keeps everything search_location returns
Stored_KeepsFailures(r) == ~IsRaise(r)

\* get_location, lines 143-150: whether the result of search_location is
\* written to the cache
Stored(r) ==
    /\ ~IsRaise(r)
    /\ r.k # "CouldNotRetrieve"
    /\ r.k = "NoSuchLocation" => cache_absent

\* get_location, lines 143-153: what is returned for the result r; an
\* exception of search_location passes through
GetLocationValue(r) == IF r.k = "StationId" \/ IsRaise(r) THEN r ELSE None

\* get_location, lines 143-153: the cache rule is applied to the result of
\* search_location and 'with self.lock' is left, by return or by exception
GetLocationStore(t) ==
    /\ pc[t] = "gl_store"
    /\ LET r == result[t]
           name == arg[t].s
       IN
        /\ cache' = IF Stored(r) THEN [cache EXCEPT ![name] = r] ELSE cache
        /\ writes' = IF Stored(r) THEN [writes EXCEPT ![name] = @ + 1] ELSE writes
        /\ ret' = [ret EXCEPT ![t] = GetLocationValue(r)]
    /\ lock' = NoThread
    /\ result' = [result EXCEPT ![t] = None]
    /\ snap' = [snap EXCEPT ![t] = EmptyCache]
    /\ pc' = [pc EXCEPT ![t] = "done"]
    /\ UNCHANGED << httpVars, provVars, cache_absent, op, arg, held, resp,
                    city_id, opsLeft, changesLeft, posts, gets, checkouts, hist,
                    resolved, prior, coTracker, lastOut, prevOut, parsed >>

\* ------------------------------------------------------------ _weather.py
\* a next_hours_days that takes a redirect for success
AfterFetchPc_Accepts3xx(r) ==
    IF r.exc \/ r.status \notin 200..399 THEN "done" ELSE "nhd_parse"

\* next_hours_days, lines 193-198: position after the 'with' blocks
AfterFetchPc(r) ==
    IF r.exc \/ r.status \notin 200..299 THEN "done" ELSE "nhd_parse"

\* next_hours_days, lines 190-198: the GET is sent, the transport answers and
\* the 'with' blocks are left, by the early return, by the exception of the
\* transport or at their end; the provider's lock is released
FetchRespond(t, answers) ==
    /\ pc[t] = "nhd_get"
    /\ \E a \in answers :
        /\ resp' = [resp EXCEPT ![t] = a]
        /\ ret' = [ret EXCEPT ![t] = IF a.exc THEN Raise("TransportError") ELSE None]
        /\ pc' = [pc EXCEPT ![t] = AfterFetchPc(a)]
    /\ gets' = [gets EXCEPT ![t] = @ + 1]
    /\ LockSessionExit(t, "KachelmannWetter")
    /\ UNCHANGED << httpVars, sessions, gen, cacheVars, op, arg, result,
                    city_id, opsLeft, changesLeft, posts, checkouts, hist,
                    writes, resolved, prior, snap, coTracker, lastOut, parsed >>

\* next_hours_days, lines 200-211: the body is parsed into the record, or
\* the exception of the first block that fails leaves the call
FetchParse(t) ==
    /\ pc[t] = "nhd_parse"
    /\ parsed' = [parsed EXCEPT ![t] = TRUE]
    /\ ret' = [ret EXCEPT ![t] = ParsePage(resp[t].body)]
    /\ pc' = [pc EXCEPT ![t] = "done"]
    /\ UNCHANGED << httpVars, provVars, cacheVars, op, arg, localVars, opsLeft,
                    changesLeft, posts, gets, checkouts, hist, writes, resolved,
                    prior, snap, coTracker, lastOut, prevOut >>

\* ------------------------------------------------------------- clients
\* a client thread starts the call o with argument a at position first
Call(t, o, a, first) ==
    /\ pc[t] \in {"idle", "done"}
    /\ opsLeft > 0
    /\ opsLeft' = opsLeft - 1
    /\ op' = [op EXCEPT ![t] = o]
    /\ arg' = [arg EXCEPT ![t] = a]
    /\ pc' = [pc EXCEPT ![t] = first]
    /\ resp' = [resp EXCEPT ![t] = NoResponse]
    /\ city_id' = [city_id EXCEPT ![t] = Unbound]
    /\ ret' = [ret EXCEPT ![t] = None]
    /\ posts' = [posts EXCEPT ![t] = 0]
    /\ gets' = [gets EXCEPT ![t] = 0]
    /\ checkouts' = [checkouts EXCEPT ![t] = [p \in Providers |-> 0]]
    /\ prior' = [prior EXCEPT ![t] = FALSE]
    /\ parsed' = [parsed EXCEPT ![t] = FALSE]
    /\ UNCHANGED << httpVars, provVars, cacheVars, held, result, hist, writes,
                    resolved, snap, coTracker, lastOut, prevOut >>

CallSetUserAgent(t) ==
    /\ changesLeft > 0
    /\ changesLeft' = changesLeft - 1
    /\ \E ua \in UserAgents, replace \in {0, 1} :
         Call(t, "sua", [k |-> "str", v |-> replace, s |-> << ua >>], "sua_headers")

CallGetLocation(t) ==
    /\ \E n \in Names : Call(t, "gl", PyStr(n), "gl_lock")
    /\ UNCHANGED changesLeft

CallGetStationId(t) ==
    /\ \E a \in StationArgs : Call(t, "gsi", a, "gsi_begin")
    /\ UNCHANGED changesLeft

CallGetStationIdObject(t) ==
    /\ \E a \in ObjectArgs : Call(t, "gsi", a, "gsi_begin")
    /\ UNCHANGED changesLeft

CallNextHoursDays(t) ==
    /\ \E a \in Locations : Call(t, "nhd", a, "gsi_begin")
    /\ UNCHANGED changesLeft

CallSearchLocation(t) ==
    /\ \E n \in Names : Call(t, "sl", PyStr(n), "sl_getter")
    /\ UNCHANGED changesLeft

\* the steps of the session provider
ProviderStep(t) ==
    \/ GetterCall(t)
    \/ GenNewSession(t)
    \/ GenReadOldTracker(t)
    \/ GenCompare(t)
    \/ LockSessionEnter(t)

\* clients of the session providers: header changes against checkouts made
\* by get_station_id (resolver's provider) and next_hours_days (both)
NextSession ==
    \E t \in Threads :
        \/ CallSetUserAgent(t)
        \/ CallGetStationId(t)
        \/ CallNextHoursDays(t)
        \/ SetUserAgentHeaders(t)
        \/ invalidate_sessions(t)
        \/ ProviderStep(t)
        \/ GenCloseSession(t)
        \/ GetStationIdBegin(t)
        \/ SearchRespond(t, FoundOrFailed)
        \/ FetchRespond(t, Fetched)
        \/ FetchParse(t)

SpecSession == InitDefault /\ [][NextSession]_vars

\* clients of the resolver: get_location, get_station_id, search_location
NextResolver ==
    \E t \in Threads :
        \/ CallGetLocation(t)
        \/ CallGetStationId(t)
        \/ CallSearchLocation(t)
        \/ ProviderStep(t)
        \/ GetStationIdBegin(t)
        \/ SearchRespond(t, SearchResponses)
        \/ GetLocationEnter(t)
        \/ GetLocationStore(t)

SpecResolver == Init /\ [][NextResolver]_vars

\* clients of get_station_id, with arguments of every type
NextStationId ==
    \E t \in Threads :
        \/ CallGetStationId(t)
        \/ CallGetStationIdObject(t)
        \/ ProviderStep(t)
        \/ GetStationIdBegin(t)
        \/ SearchRespond(t, SearchResponses)

SpecStationId == Init /\ [][NextStationId]_vars

\* clients of the fetcher: next_hours_days
NextFetch ==
    \E t \in Threads :
        \/ CallNextHoursDays(t)
        \/ ProviderStep(t)
        \/ GetStationIdBegin(t)
        \/ SearchRespond(t, SearchResponses)
        \/ FetchRespond(t, FetchResponses)
        \/ FetchParse(t)

SpecFetch == InitDefault /\ [][NextFetch]_vars

\* one client that calls search_location, with every answer of the endpoint
NextSearch ==
    \/ CallSearchLocation("t1")
    \/ ProviderStep("t1")
    \/ SearchRespond("t1", AllSearchResponses)

SpecSearch == InitDefault /\ [][NextSearch]_vars

\* one client that calls next_hours_days, with every answer of the forecast
\* endpoint
NextParse ==
    \/ CallNextHoursDays("t1")
    \/ ProviderStep("t1")
    \/ GetStationIdBegin("t1")
    \/ SearchRespond("t1", FoundOrFailed)
    \/ FetchRespond("t1", AllFetchResponses)
    \/ FetchParse("t1")

SpecParse == InitDefault /\ [][NextParse]_vars

\* a step that thread t takes by itself in a call it has started
ThreadStep(t) ==
    \/ ProviderStep(t)
    \/ GetStationIdBegin(t)
    \/ GetLocationEnter(t)
    \/ GetLocationStore(t)
    \/ FetchParse(t)

\* thread t waits for the transport to answer a request it has sent
AwaitsAnswer(t) == pc[t] \in {"sl_post", "nhd_get"}

\* clients of one fetcher and one resolver: get_location, get_station_id and
\* next_hours_days
NextCalls ==
    \E t \in Threads :
        \/ CallGetLocation(t)
        \/ CallGetStationId(t)
        \/ CallNextHoursDays(t)
        \/ ThreadStep(t)
        \/ SearchRespond(t, FoundOrFailed)
        \/ FetchRespond(t, PlainFetchResponses)

\* every thread that can take a step takes one in the end (threads are
\* scheduled), and no thread waits for an answer for ever (the transport
\* answers or fails in finite time)
SpecCalls ==
    /\ InitDefault /\ [][NextCalls]_vars
    /\ \A t \in Threads : WF_vars(ThreadStep(t)) /\ []<>(~AwaitsAnswer(t))

\* every client and every step together
Next == NextSession \/ NextResolver \/ NextFetch

Spec == Init /\ [][Next]_vars

TypeOK ==
    /\ lock \in Threads \cup {NoThread}
    /\ \A p \in Providers : plock[p] \in Threads \cup {NoThread}
    /\ opsLeft \in 0..MaxOps

\* =================================================================== claims
\* vocabulary of the claims, stated without the operators of the model

\* s consists of decimal digits, at least one
DigitsOnly(s) == Len(s) >= 1 /\ \A i \in 1..Len(s) : s[i] \in Digits

\* the number a digit string denotes
RECURSIVE DecimalValue(_)
DecimalValue(s) ==
    IF Len(s) = 0 THEN 0
    ELSE 10 * DecimalValue(SubSeq(s, 1, Len(s) - 1)) + DigitVal[s[Len(s)]]

\* the last path segment of a redirect target
LastSegment(w) ==
    LET slashes == { i \in 1..Len(w) : w[i] = "/" }
        from == IF slashes = {} THEN 0
                ELSE CHOOSE i \in slashes : \A j \in slashes : j <= i
    IN [i \in 1..(Len(w) - from) |-> w[from + i]]

\* the position of the separator when seg has the form <digits>-<slug>,
\* 0 when it has not
SeparatorOf(seg) ==
    LET seps == { i \in 2..Len(seg) :
                    seg[i] = "-" /\ \A j \in 1..(i - 1) : seg[j] \in Digits }
    IN IF seps = {} THEN 0 ELSE CHOOSE i \in seps : TRUE

\* thread t is inside the 'with get_session() as session' body of provider p
InScope(t, p) ==
    \/ p = "LocationCache" /\ pc[t] = "sl_post"
    \/ p = "KachelmannWetter" /\ pc[t] = "nhd_get"

\* thread t has a remote lookup of get_location under way
InLookup(t) ==
    op[t] = "gl" /\ pc[t] \in {"sl_getter", "sl_gen", "sl_enter", "sl_post"}

\* an outcome that get_location is to keep in the cache
Cacheable(k) == k = "StationId" \/ (k = "NoSuchLocation" /\ cache_absent)

\* C1: with negative caching on, a get_station_id call for a name that an
\* earlier, finished get_station_id call has already resolved (to a station
\* id or to 'no such location') sends no search request: it is served from
\* the cache
C1_SecondResolveServedFromCache ==
    \A t \in Threads :
        (op[t] = "gsi" /\ cache_absent /\ prior[t]) => posts[t] = 0

\* C2: the cache never holds CouldNotRetrieve; a get_location call whose
\* lookup ended in CouldNotRetrieve leaves the cache as it found it, returns
\* None and has sent its own search request
C2_TransientFailureNeverStored ==
    /\ [](\A n \in Names : cache[n].k # "CouldNotRetrieve")
    /\ [][\A t \in Threads :
            (pc[t] = "gl_store" /\ result[t] = could_not_retrieve /\ pc'[t] = "done")
            => (cache' = snap[t] /\ posts[t] = 1 /\ ret'[t] = None)]_vars

\* C2 witness: the second of two consecutive get_location calls for one name
\* that both failed transiently has returned
C2_Witness ==
    \E t \in Threads :
        /\ op[t] = "gl" /\ pc[t] = "done" /\ posts[t] = 1
        /\ hist[arg[t].s] = << "CouldNotRetrieve", "CouldNotRetrieve" >>
        /\ cache[arg[t].s] = None

\* thread t takes the step that enters the scope of the provider it checks out
EntersScope(t) ==
    /\ pc[t] \in {"sl_enter", "nhd_enter"}
    /\ pc'[t] \in {"sl_post", "nhd_get"}

\* C3: per provider, a checkout that enters its scope with no header change
\* since the previous checkout was begun is handed the same session as that
\* one; a checkout begun after a header change that followed the previous
\* hand-out is handed a session created later than the one handed out before
\* (sessions are numbered in the order of their creation), and that one is
\* closed by then
C3_SameSessionUntilHeaderChange ==
    [][\A t \in Threads :
         EntersScope(t) =>
            LET last == lastOut[Prov(t)] IN
            /\ (last.sid # 0 /\ header_modication_tracker = last.startTrk)
                  => held'[t] = last.sid
            /\ (last.sid # 0 /\ coTracker[t] > last.enterTrk)
                  => /\ held'[t] > last.sid
                     /\ sessions[last.sid].closed]_vars

\* C3 witness: after one header change the fetcher's provider hands a thread
\* a new session, its old one closed, and the resolver's provider has done
\* the same
C3_Witness ==
    \E t \in Threads :
        /\ InScope(t, "KachelmannWetter")
        /\ prevOut[t].sid # 0 /\ held[t] > prevOut[t].sid
        /\ sessions[prevOut[t].sid].closed
        /\ header_modication_tracker = 1
        /\ lastOut["LocationCache"].startTrk = 1
        /\ Cardinality({ i \in DOMAIN sessions : sessions[i].closed }) = 2

\* C4: at most one thread is inside the checked-out scope of a provider
C4_OneCallerInScope ==
    \A p \in Providers : Cardinality({ t \in Threads : InScope(t, p) }) <= 1

\* C4 witness: one thread is inside the scope of the resolver's provider
\* while another waits to enter it
C4_Witness ==
    \E t, u \in Threads :
        /\ t # u
        /\ InScope(t, "LocationCache")
        /\ pc[u] = "sl_enter"

\* C5: a session that a thread holds inside its scope is not closed: neither
\* closed while in use nor handed out closed
C5_HeldSessionNeverClosed ==
    \A t \in Threads : held[t] # 0 => ~sessions[held[t]].closed

\* C6: at most one lookup of get_location is under way; per name, a lookup
\* that ended in a cacheable outcome is the last one, there is at most one
\* cache write, and the write has happened once the call has returned
C6_OneLookupOneWritePerName ==
    /\ Cardinality({ t \in Threads : InLookup(t) }) <= 1
    /\ \A n \in Names :
        /\ \A i \in 1..Len(hist[n]) : Cacheable(hist[n][i]) => i = Len(hist[n])
        /\ writes[n] <= 1
        /\ (writes[n] = 1) <=> (cache[n] # None)
        /\ ( /\ \E i \in 1..Len(hist[n]) : Cacheable(hist[n][i])
             /\ \A t \in Threads : ~(pc[t] = "gl_store" /\ arg[t].s = n) )
           => writes[n] = 1

\* C6 witness: two get_location calls for one name have returned the station,
\* one from its lookup and one from the cache, after a single lookup
C6_Witness ==
    \E t, u \in Threads :
        /\ t # u
        /\ op[t] = "gl" /\ op[u] = "gl" /\ arg[t] = arg[u]
        /\ pc[t] = "done" /\ pc[u] = "done"
        /\ ret[t].k = "StationId" /\ ret[u] = ret[t]
        /\ posts[t] = 1 /\ posts[u] = 0
        /\ hist[arg[t].s] = << "StationId" >> /\ writes[arg[t].s] = 1

\* C7: get_station_id of a digit string returns its value in its first step,
\* with the cache, both locks, the providers and their sessions untouched and
\* nothing checked out or requested
C7_NumericStringReturnedDirectly ==
    [][\A t \in Threads :
         ( /\ pc[t] = "gsi_begin" /\ op[t] = "gsi"
           /\ arg[t].k = "str" /\ DigitsOnly(arg[t].s)
           /\ pc'[t] # pc[t] )
         => /\ pc'[t] = "done"
            /\ ret'[t] = PyInt(DecimalValue(arg[t].s))
            /\ posts'[t] = 0 /\ \A p \in Providers : checkouts'[t][p] = 0
            /\ UNCHANGED << cache, lock, plock, gen, sessions >>]_vars

\* C7 witness: get_station_id("12") has returned 12
C7_Witness ==
    \E t \in Threads :
        /\ op[t] = "gsi" /\ pc[t] = "done" /\ arg[t] = PyStr(Numeric12)
        /\ ret[t] = PyInt(12) /\ posts[t] = 0

C9_NoIdentifierNoFetch ==
    \A t \in Threads :
        (op[t] = "nhd" /\ city_id[t] = None) =>
            /\ pc[t] = "done" /\ ret[t] = None
            /\ gets[t] = 0 /\ checkouts[t]["KachelmannWetter"] = 0
            /\ ~parsed[t] /\ plock["KachelmannWetter"] # t

\* C9 witness: next_hours_days has returned after a lookup without identifier
C9_Witness ==
    \E t \in Threads :
        /\ op[t] = "nhd" /\ pc[t] = "done" /\ city_id[t] = None
        /\ posts[t] = 1 /\ ret[t] = None

\* C10: once the forecast GET has been answered with a status outside
\* 200-299, next_hours_days has returned None, after that one GET, without
\* parsing, and no longer holds the lock of the fetcher's provider
C10_BadStatusReturnsNothing ==
    \A t \in Threads :
        (op[t] = "nhd" /\ gets[t] >= 1 /\ ~resp[t].exc /\ resp[t].status \notin 200..299)
        => /\ pc[t] = "done" /\ ret[t] = None
           /\ gets[t] = 1 /\ ~parsed[t]
           /\ plock["KachelmannWetter"] # t /\ held[t] = 0

\* C10 witness: next_hours_days has returned after a 404
C10_Witness ==
    \E t \in Threads :
        /\ op[t] = "nhd" /\ pc[t] = "done" /\ gets[t] = 1
        /\ resp[t].status = 404 /\ ret[t] = None

\* thread t has parsed the page of its fetch and next_hours_days has ended
ParsedPage(t) == op[t] = "nhd" /\ pc[t] = "done" /\ parsed[t]

\* in an hourly block: the hours text, the symbol, its image, the temperature
\* text and the rain text are each there exactly once
HourlyElementsOnce(b) ==
    /\ Len(b.hours) = 1 /\ Len(b.temps) = 1 /\ Len(b.rains) = 1
    /\ Len(b.symbols) = 1
    /\ \A i \in 1..Len(b.symbols) : Len(b.symbols[i].imgs) = 1

\* in a daily block: the body, the three day-time images, the min/max box
\* and its two temperature texts are each there exactly once
DailyElementsOnce(d) ==
    \A f \in {"body", "morning", "afternoon", "evening", "minmax",
              "temp_max", "temp_min"} : d[f] = 1

\* some block of the page lacks a required-once element or has it twice
SomeBlockIllFormed(page) ==
    \/ \E i \in 1..Len(page.hours) : ~HourlyElementsOnce(page.hours[i])
    \/ \E i \in 1..Len(page.days) : ~DailyElementsOnce(page.days[i])

\* C11: when a block of a fetched page lacks an element that is required
\* exactly once, or has more than one, next_hours_days ends with an error:
\* it returns neither a NextHoursDaysData record (empty, partial or
\* defaulted) nor None
C11_IllFormedBlockFailsTheFetch ==
    \A t \in Threads :
        (ParsedPage(t) /\ SomeBlockIllFormed(resp[t].body)) =>
            /\ ret[t].k \in {"ValueError", "IndexError", "AttributeError", "TypeError"}
            /\ ret[t].k # "NextHoursDaysData"
            /\ ret[t] # None

\* C11 witness: a page whose second hourly block has no temperature text,
\* after a well-formed first block, has made next_hours_days raise
C11_Witness ==
    \E t \in Threads :
        /\ ParsedPage(t)
        /\ Len(resp[t].body.hours) = 2
        /\ HourlyElementsOnce(resp[t].body.hours[1])
        /\ resp[t].body.hours[2].temps = << >>
        /\ Len(resp[t].body.hours[2].rains) = 1
        /\ ret[t] = Raise("ValueError")

\* C12: every get_location call that returns gives a StationId or None, also
\* when it is served from a cached negative entry
C12_GetLocationReturnsStationIdOrNone ==
    \A t \in Threads :
        (op[t] = "gl" /\ pc[t] = "done" /\ ~IsRaise(ret[t]))
        => ret[t].k \in {"StationId", "None"}

\* thread t has finished a get_station_id call that sent its search request
LookedUp(t) == op[t] = "gsi" /\ pc[t] = "done" /\ posts[t] >= 1

\* the search of thread t ended without a redirect: in NoSuchLocation (2xx)
\* or in CouldNotRetrieve (transport failure, any other status)
EndedNegative(t) == ~resp[t].exc /\ resp[t].status \in 200..299
EndedTransient(t) == resp[t].exc \/ resp[t].status \notin 200..399

\* C13: get_station_id of a name returns None when its lookup ends in
\* NoSuchLocation and when it ends in CouldNotRetrieve, and an int only when
\* it ends in a redirect; no step of a get_station_id call changes the cache
\* or the resolver's lock, so the two falsy outcomes leave the same state to
\* every later call
C13_TransientReportedAsNegative ==
    /\ [](\A t \in Threads :
            LookedUp(t) =>
                /\ EndedNegative(t) => ret[t] = None
                /\ EndedTransient(t) => ret[t] = None
                /\ ret[t].k = "int" => (~resp[t].exc /\ resp[t].status \in 300..399)
                /\ ret[t].k \notin {"NoSuchLocation", "CouldNotRetrieve", "StationId"})
    /\ [][\A t \in Threads :
            (op[t] = "gsi" /\ pc'[t] # pc[t] /\ pc[t] \notin {"idle", "done"})
            => UNCHANGED << cache, lock >>]_vars

\* C13 witness: two get_station_id calls for one name have returned None, one
\* after NoSuchLocation and one after CouldNotRetrieve
C13_Witness ==
    \E t, u \in Threads :
        /\ t # u /\ LookedUp(t) /\ LookedUp(u) /\ arg[t] = arg[u]
        /\ EndedNegative(t) /\ EndedTransient(u)
        /\ ret[t] = None /\ ret[u] = None

\* the step thread t takes leaves no trace in the resolver: nothing is
\* requested or checked out, and cache, locks, providers and sessions stay
NoLookupStep(t) ==
    /\ pc'[t] = "done"
    /\ posts'[t] = 0 /\ \A p \in Providers : checkouts'[t][p] = 0
    /\ UNCHANGED << cache, lock, plock, gen, sessions >>

\* C14: get_station_id of a value that is no str, no int and no
\* LocationResult raises TypeError in its first step, and of an int or a
\* StationId returns that integer in its first step; in both cases nothing
\* is requested or checked out and the resolver's state is left as it was
C14_TypeErrorBeforeAnyLookup ==
    [][\A t \in Threads :
         (pc[t] = "gsi_begin" /\ op[t] = "gsi" /\ pc'[t] # pc[t]) =>
            /\ arg[t].k \notin {"str", "int", "StationId", "NoSuchLocation",
                                "CouldNotRetrieve"}
                  => (ret'[t].k = "TypeError" /\ NoLookupStep(t))
            /\ arg[t].k \in {"int", "StationId"}
                  => (ret'[t] = PyInt(arg[t].v) /\ NoLookupStep(t))]_vars

\* C14 witness: get_station_id of a float has raised TypeError and
\* get_station_id of StationId(7) has returned 7
C14_Witness ==
    \E t, u \in Threads :
        /\ op[t] = "gsi" /\ pc[t] = "done" /\ arg[t].k = "float"
        /\ ret[t] = Raise("TypeError") /\ posts[t] = 0
        /\ op[u] = "gsi" /\ pc[u] = "done" /\ arg[u] = ObjArg(StationId(7))
        /\ ret[u] = PyInt(7) /\ posts[u] = 0

\* the name of an image file: what follows the last slash of the path, up
\* to its first dot
FileStem(path) ==
    LET name == LastSegment(path)
        dots == { i \in 1..Len(name) : name[i] = "." }
        to == IF dots = {} THEN Len(name)
              ELSE (CHOOSE i \in dots : \A j \in dots : i <= j) - 1
    IN [i \in 1..to |-> name[i]]

\* the second of the segments that underscores cut a name into
SecondSegment(name) ==
    LET bars == { i \in 1..Len(name) : name[i] = "_" }
        first == CHOOSE i \in bars : \A j \in bars : i <= j
        later == { i \in bars : i > first }
        second == IF later = {} THEN Len(name) + 1
                  ELSE CHOOSE i \in later : \A j \in later : i <= j
    IN [i \in 1..(second - first - 1) |-> name[first + i]]

RECURSIVE TenTo(_)
TenTo(n) == IF n = 0 THEN 1 ELSE 10 * TenTo(n - 1)

\* text starts with a plain decimal number that ends right before the first
\* sign: digits, or digits.digits, after an optional minus
PlainNumberBefore(text, sign) ==
    LET signs == { i \in 1..Len(text) : text[i] = sign }
        end == (CHOOSE i \in signs : \A j \in signs : i <= j) - 1
        from == IF text[1] = "-" THEN 2 ELSE 1
        dots == { i \in from..end : text[i] = "." }
    IN /\ signs # {} /\ end >= from
       /\ Cardinality(dots) <= 1
       /\ \A i \in from..end : text[i] \in Digits \cup {"."}
       /\ text[from] # "." /\ text[end] # "."

\* the float x is the number before the sign, divided by 10^shift
IsNumberBefore(x, text, sign, shift) ==
    LET signs == { i \in 1..Len(text) : text[i] = sign }
        end == (CHOOSE i \in signs : \A j \in signs : i <= j) - 1
        from == IF text[1] = "-" THEN 2 ELSE 1
        dots == { i \in from..end : text[i] = "." }
        dot == IF dots = {} THEN end + 1 ELSE CHOOSE i \in dots : TRUE
        whole == DecimalValue(SubSeq(text, from, dot - 1))
        frac == DecimalValue(SubSeq(text, dot + 1, end))
        places == IF dots = {} THEN 0 ELSE end - dot
        digits == whole * TenTo(places) + frac
        number == IF text[1] = "-" THEN 0 - digits ELSE digits
    IN x.k = "float" /\ x.m * TenTo(places + shift) = number * TenTo(x.e)

\* thread t has parsed a page of one hourly block into a record
ParsedOneHour(t) ==
    /\ ParsedPage(t)
    /\ Len(resp[t].body.hours) = 1
    /\ ret[t].k = "NextHoursDaysData"

\* the general rule of parse_hour: the symbol is the second
\* underscore-delimited segment of the image file name, the temperature the
\* number before the degree sign, the rain chance the number before the
\* percent sign divided by 100
SymbolTemperatureRainRule(t) ==
    ParsedOneHour(t) =>
        LET b == resp[t].body.hours[1]
            h == ret[t].hours[1]
        IN /\ h.sky.symbol.s = SecondSegment(FileStem(b.symbols[1].imgs[1].s))
           /\ PlainNumberBefore(b.temps[1], Degree)
                 => IsNumberBefore(h.temperature, b.temps[1], Degree, 0)
           /\ PlainNumberBefore(b.rains[1], "%")
                 => IsNumberBefore(h.chance_of_rain, b.rains[1], "%", 2)

\* the block of the documentation, on a page that is well-formed otherwise,
\* is parsed to 13:00, bedeckt, 3.0 degrees, 0.88 and the given symbol
ExampleParsedWith(t, symbol) ==
    (ParsedPage(t) /\ resp[t].body = ExamplePage) =>
        /\ ret[t].k = "NextHoursDaysData"
        /\ LET h == ret[t].hours[1]
           IN /\ h.hours = 13 /\ h.minutes = 0
              /\ h.sky.friendly_name.k = "str"
              /\ h.sky.friendly_name.s = ExampleTitle
              /\ h.sky.symbol.s = symbol
              /\ h.temperature = [k |-> "float", m |-> 3, e |-> 0]
              /\ h.chance_of_rain = [k |-> "float", m |-> 88, e |-> 2]

\* C15 as stated: the example block with image file wsymbol_0_overcast.png
\* is parsed to symbol "overcast", and the general rule holds
C15_ExampleSymbolOvercast ==
    \A t \in Threads :
        /\ ExampleParsedWith(t, <<"o", "v", "e", "r", "c", "a", "s", "t">>)
        /\ SymbolTemperatureRainRule(t)

\* C15: the example block is parsed to hours 13, minutes 0, friendly name
\* "bedeckt", temperature 3.0 and rain chance 0.88, and to the symbol "0",
\* the second underscore-delimited segment of wsymbol_0_overcast; in general
\* the symbol is that second segment, the temperature the number before the
\* degree sign and the rain chance the number before the percent sign
\* divided by 100
C15_SymbolIsSecondSegment ==
    \A t \in Threads :
        /\ ExampleParsedWith(t, <<"0">>)
        /\ SymbolTemperatureRainRule(t)

\* C15 witness: the example block has been parsed, and its symbol is "0"
C15_Witness ==
    \E t \in Threads :
        /\ ParsedOneHour(t)
        /\ resp[t].body.hours = << ExampleHour >>
        /\ ret[t].hours[1].sky.symbol.s = <<"0">>
        /\ ret[t].hours[1].chance_of_rain.m = 88

\* C16: a thread inside the scope of a checkout that began after the last
\* set_user_agent call had returned, with no header change begun since,
\* holds a session whose User-Agent is the current header value
C16_SessionCarriesCurrentUserAgent ==
    \A t \in Threads : \A p \in Providers :
        ( /\ InScope(t, p)
          /\ lastOut[p].sid = held[t]
          /\ lastOut[p].startTrk = header_modication_tracker
          /\ \A u \in Threads : pc[u] # "sua_invalidate" )
        => sessions[held[t]].ua = headers

\* thread t takes the step that applies the cache rule of get_location
AppliesCacheRule(t) == pc[t] = "gl_store" /\ pc'[t] = "done"

\* C17: the cache changes only where get_location applies its rule to the
\* result of its lookup: a StationId is stored under the name, a
\* NoSuchLocation is stored exactly when cache_absent is true, anything else
\* leaves the cache as it was; with cache_absent false the cache never holds
\* NoSuchLocation and every get_location call that returned None has sent
\* its own search request
C17_CacheWrittenByRule ==
    /\ [](~cache_absent =>
            /\ \A n \in Names : cache[n].k # "NoSuchLocation"
            /\ \A t \in Threads :
                 (op[t] = "gl" /\ pc[t] = "done" /\ ret[t] = None) => posts[t] = 1)
    /\ [][\A t \in Threads :
            AppliesCacheRule(t) =>
                LET r == result[t]
                    n == arg[t].s
                IN /\ r.k = "StationId" => cache'[n] = r
                   /\ r.k = "NoSuchLocation" => ((cache'[n] = r) <=> cache_absent)
                   /\ (r.k \notin {"StationId", "NoSuchLocation"}
                         \/ (r.k = "NoSuchLocation" /\ ~cache_absent))
                      => cache' = cache
                   /\ \A m \in Names \ {n} : cache'[m] = cache[m]]_vars
    /\ [][cache' # cache => \E t \in Threads : AppliesCacheRule(t)]_vars

\* C17 witness: with cache_absent false, two get_location calls for one
\* unmatched name have each looked it up, and the cache holds nothing for it
C17_Witness ==
    \E t \in Threads :
        /\ ~cache_absent
        /\ op[t] = "gl" /\ pc[t] = "done" /\ ret[t] = None /\ posts[t] = 1
        /\ hist[arg[t].s] = << "NoSuchLocation", "NoSuchLocation" >>
        /\ cache[arg[t].s] = None

\* the answer a is a redirect whose target has, before the first '-' of its
\* last segment, a character that no number is written with
BadRedirect(a) ==
    /\ ~a.exc /\ a.status \in 300..399 /\ a.hasLoc
    /\ LET seg == LastSegment(a.loc)
           dashes == { i \in 1..Len(seg) : seg[i] = "-" }
           to == IF dashes = {} THEN Len(seg)
                 ELSE (CHOOSE i \in dashes : \A j \in dashes : i <= j) - 1
       IN \E i \in 1..to : seg[i] \notin Digits \cup {"+", "_", " "}

\* C18: a get_location or get_station_id call whose search was answered by
\* a redirect with a non-numeric identifier ends with an error, not with a
\* value, and then holds neither the resolver's lock nor the provider's lock
\* nor a session; the steps by which it fails leave the cache as it was
C18_BadRedirectFailsAndReleases ==
    /\ [](\A t \in Threads :
            ( /\ op[t] \in {"gl", "gsi"} /\ pc[t] = "done"
              /\ posts[t] >= 1 /\ BadRedirect(resp[t]) )
            => /\ ret[t].k = "ValueError"
               /\ lock # t /\ plock["LocationCache"] # t /\ held[t] = 0)
    /\ [][\A t \in Threads :
            ( /\ op[t] \in {"gl", "gsi"} /\ pc'[t] # pc[t]
              /\ posts'[t] >= 1 /\ BadRedirect(resp'[t]) /\ pc[t] \notin {"idle", "done"} )
            => /\ cache' = cache
               /\ plock'["LocationCache"] # t]_vars

\* C18 witness: a get_location call failed on such a redirect, and a later
\* call for the same name has found the station and cached it
C18_Witness ==
    \E t \in Threads :
        /\ op[t] = "gl" /\ pc[t] = "done" /\ ret[t].k = "StationId"
        /\ hist[arg[t].s] = << "ValueError", "StationId" >>
        /\ cache[arg[t].s] = ret[t]
        /\ lock = NoThread /\ plock["LocationCache"] = NoThread

\* C19: once the cache holds an entry for a name, no step removes or changes
\* it, writes it again or adds a lookup of get_location for that name
C19_CacheEntriesPermanent ==
    [][\A n \in Names :
         cache[n] # None =>
            /\ cache'[n] = cache[n]
            /\ writes'[n] = writes[n]
            /\ hist'[n] = hist[n]]_vars

\* C19 witness: after the one lookup that cached a station, search_location
\* has got another answer for the name and get_location is still served the
\* cached station, without a request
C19_Witness ==
    \E t, u \in Threads :
        /\ op[t] = "sl" /\ pc[t] = "done" /\ ret[t] = no_such_location
        /\ op[u] = "gl" /\ pc[u] = "done" /\ arg[u] = arg[t] /\ posts[u] = 0
        /\ ret[u].k = "StationId" /\ cache[arg[u].s] = ret[u]
        /\ hist[arg[u].s] = << "StationId" >> /\ writes[arg[u].s] = 1

\* a step changes the generator or the lock of provider p
ProviderChanged(p) == gen'[p] # gen[p] \/ plock'[p] # plock[p]

\* the position of a thread that runs the generator of provider p
RunsGenerator(t, p) ==
    pc[t] = IF p = "LocationCache" THEN "sl_gen" ELSE "nhd_gen"

\* C20: the lock of a provider is held only by a thread inside that
\* provider's scope and its generator is run only by a thread checking that
\* provider out, so holding one provider's session keeps nobody from another
\* provider; two providers never share a session; and a step that changes
\* one provider leaves every other provider's generator and lock, the
\* session held in its scope and that session's state as they were
C20_ProvidersIndependent ==
    /\ [](\A p \in Providers :
            /\ plock[p] # NoThread => InScope(plock[p], p)
            /\ gen[p].runner # NoThread => RunsGenerator(gen[p].runner, p)
            /\ \A q \in Providers \ {p} :
                 gen[p].session = 0 \/ gen[p].session # gen[q].session)
    /\ [][\A p \in Providers : \A q \in Providers \ {p} :
            ProviderChanged(p) =>
                /\ gen'[q] = gen[q] /\ plock'[q] = plock[q]
                /\ \A t \in Threads :
                     InScope(t, q) => /\ held'[t] = held[t]
                                      /\ sessions'[held[t]] = sessions[held[t]]]_vars

\* C20 witness: one thread is inside the scope of the resolver's provider
\* and another inside the scope of the fetcher's, each with its own session
C20_Witness ==
    \E t, u \in Threads :
        /\ InScope(t, "LocationCache") /\ InScope(u, "KachelmannWetter")
        /\ held[t] # 0 /\ held[u] # 0 /\ held[t] # held[u]
        /\ plock["LocationCache"] = t /\ plock["KachelmannWetter"] = u

\* C21: no get_session() call fails: every call that has ended has sent one
\* request for each checkout it began, on the session it was handed, and
\* none has ended with the error of a generator that is already running
C21_CheckoutNeverFails ==
    \A t \in Threads :
        pc[t] = "done" =>
            /\ checkouts[t]["LocationCache"] = posts[t]
            /\ checkouts[t]["KachelmannWetter"] = gets[t]

\* thread t is inside a call
Running(t) == pc[t] \notin {"idle", "done"}

\* C22: every call that was started ends, by return or by exception; when
\* no call is running the resolver's lock and both providers' locks are
\* free; and the resolver's lock is taken only by a thread that holds no
\* provider's lock, so the locks are taken in the order resolver, provider
C22_CallsCompleteLocksFree ==
    /\ \A t \in Threads : Running(t) ~> pc[t] = "done"
    /\ []((\A t \in Threads : ~Running(t))
            => (lock = NoThread /\ \A p \in Providers : plock[p] = NoThread))
    /\ [](\A t \in Threads : \A p \in Providers :
            plock[p] = t => pc[t] # "gl_lock")
    /\ [][\A t \in Threads :
            (lock # t /\ lock' = t) => \A p \in Providers : plock[p] # t]_vars

\* C22 witness: every call of the budget has ended, among them a
\* get_location that looked its name up under both locks and a
\* next_hours_days that parsed its page, and all three locks are free
C22_Witness ==
    \E t, u \in Threads :
        /\ opsLeft = 0 /\ pc[t] = "done" /\ pc[u] = "done"
        /\ op[t] = "gl" /\ posts[t] = 1 /\ ret[t].k = "StationId"
        /\ op[u] = "nhd" /\ parsed[u]
        /\ lock = NoThread /\ \A p \in Providers : plock[p] = NoThread

====
